---------------------------- MODULE Spec2Model ----------------------------
(***************************************************************************)
(* Near-duplicate image detection and grouping by perceptual hash:         *)
(*   src/background inpaint manual (open cv)/find_similar.py        (report)*)
(*   src/background inpaint manual (open cv)/find_similar_fast_delete.py    *)
(*                                                                  (delete)*)
(* One run of main() over one directory.  Every loop iteration of main and *)
(* of group_similar_hashes is one step of the state machine.               *)
(*                                                                         *)
(* Percentages (the similarity and the threshold) are fixed-point numbers  *)
(* counted in units of 1/PctUnit percent.  For the 64-bit fingerprint      *)
(* every value 100 * (1 - d/64) is a multiple of 1/16, and is computed     *)
(* without rounding by the float arithmetic of the source.                 *)
(***************************************************************************)
EXTENDS Integers, Sequences, FiniteSets, TLC

\* ------------------------------------------------------------------ bounds
\* most entries of the directory a run of main() lists
MaxFiles == 3
\* the images of such a directory differ only in the first FileBits bits of
\* their fingerprints
FileBits == 1
\* most keys of a Fingerprint Table handed to group_similar_hashes directly
MaxImages == 3
\* the fingerprints of such a table differ only in their first NumBits bits
NumBits == 3

\* ------------------------------------------------------- program constants
\* side of the bit matrix: imagehash.phash(img) is called with its default
\* hash_size
HashSide == 8
\* --threshold default
DefaultThreshold == 96
\* unit of the fixed-point percentages: 1/16 percent
PctUnit == 16

\* thresholds a run of main() is started with, in 1/PctUnit percent:
\* 0, the default 96.0, 98.4375 (reached at distance 1), 100, 101
Thresholds ==
    { 0, DefaultThreshold * PctUnit, 1575, 100 * PctUnit, 101 * PctUnit }
\* thresholds group_similar_hashes is called with directly: the default,
\* 98.4375 and 100
GrouperThresholds == { DefaultThreshold * PctUnit, 1575, 100 * PctUnit }

\* the tuple of suffixes main() passes to endswith
ImageSuffixes == { "png", "jpg", "jpeg", "bmp" }

\* a fingerprint is the set of positions whose bit is 1
Fingerprints == SUBSET (1 .. NumBits)
FileFingerprints == SUBSET (1 .. FileBits)
\* the content of a file: pixels with a fingerprint, or bytes PIL cannot open
Decodable(hash) == [ decodes |-> TRUE, hash |-> hash ]
Undecodable == [ decodes |-> FALSE, hash |-> {} ]

\* the two scripts: find_similar.py and find_similar_fast_delete.py
Variants == { "report", "delete" }

VARIABLES
    variant,      \* which script runs
    dir_exists,   \* args.directory names an existing directory
    listing,      \* os.listdir(args.directory): sequence of [name, ext, content]
    on_disk,      \* names of the files in the directory now
    threshold,    \* args.threshold
    dry_run,      \* args.dry_run
    pc,           \* position of main()
    image_files,  \* main: image_files
    total,        \* main: total
    img_hashes,   \* main: img_hashes, an ordered dict: sequence of [path, hash]
    hi,           \* number of finished iterations of the hashing loop
    groups,       \* group_similar_hashes: groups (sequence of sets)
    used,         \* group_similar_hashes: used
    pk,           \* number of finished iterations of the pair loop
    todo,         \* the pairs combinations(items, 2) has yet to yield
    sims,         \* pairs whose similarity the pair loop has computed
    duplicates,   \* main: duplicates, sequence of <<keep, dup>>
    gi,           \* number of groups the duplicates loop has finished
    di,           \* number of finished iterations of the deleting loop
    attempts,     \* os.remove calls so far: sequence of [path, ok]
    out           \* lines printed so far

vars == << variant, dir_exists, listing, on_disk, threshold, dry_run, pc,
           image_files, total, img_hashes, hi, groups, used, pk, todo, sims,
           duplicates, gi, di, attempts, out >>

\* ---------------------------------------------------------------- helpers
Range(s) == { s[i] : i \in 1 .. Len(s) }

\* keys of the ordered dict, in insertion order: list(img_hashes.keys())
Keys(table) == [ i \in 1 .. Len(table) |-> table[i].path ]

\* img_hashes[path]
HashOf(table, path) ==
    table[CHOOSE i \in 1 .. Len(table) : table[i].path = path].hash

\* hash1 - hash2 of imagehash: the number of differing bits
HammingDistance(hash1, hash2) ==
    Cardinality((hash1 \ hash2) \cup (hash2 \ hash1))

\* len(hash1.hash) ** 2
MaxBits == HashSide * HashSide

\* the quotient taken by floor division: 100 * (1 - dist // max_bits)
SimilarityAt_FloorDiv(dist, max_bits) ==
    100 * PctUnit * (1 - (dist \div max_bits))

\* 100 * (1 - dist / max_bits) for a given distance, in 1/PctUnit percent
SimilarityAt(dist, max_bits) ==
    (100 * PctUnit * (max_bits - dist)) \div max_bits

hamming_similarity(hash1, hash2) ==
    SimilarityAt(HammingDistance(hash1, hash2), MaxBits)

\* itertools.product(items, repeat=2): every ordered pair, equal ones too
Combinations2_Product(items) ==
    [ k \in 1 .. Len(items) * Len(items) |->
        << items[((k - 1) \div Len(items)) + 1], items[((k - 1) % Len(items)) + 1] >> ]

\* itertools.combinations(items, 2)
RECURSIVE Combinations2(_)
Combinations2(items) ==
    IF Len(items) < 2 THEN << >>
    ELSE [ k \in 1 .. Len(items) - 1 |-> << items[1], items[k + 1] >> ]
         \o Combinations2(Tail(items))

\* no search of the existing groups: every qualifying pair starts a group
MergePair_AlwaysAppend(gs, img1, img2) == Append(gs, { img1, img2 })

\* the for ... else over groups: the first group holding img1 or img2 takes
\* both, and when there is none a new group is appended
MergePair(gs, img1, img2) ==
    LET hits == { g \in 1 .. Len(gs) : img1 \in gs[g] \/ img2 \in gs[g] }
    IN  IF hits = {} THEN Append(gs, { img1, img2 })
        ELSE LET g == CHOOSE h \in hits : \A h2 \in hits : h <= h2
             IN  [ gs EXCEPT ![g] = @ \cup { img1, img2 } ]

\* the check of `used` left out
Skipped_Never(st, pair) == FALSE

\* the pair is skipped without a comparison
Skipped(st, pair) == pair[1] \in st.used \/ pair[2] \in st.used

\* sim <= threshold
Qualifies_Reversed(table, pair, thr) ==
    hamming_similarity(HashOf(table, pair[1]), HashOf(table, pair[2])) <= thr

\* sim > threshold
Qualifies_Strict(table, pair, thr) ==
    hamming_similarity(HashOf(table, pair[1]), HashOf(table, pair[2])) > thr

\* sim >= threshold
Qualifies(table, pair, thr) ==
    hamming_similarity(HashOf(table, pair[1]), HashOf(table, pair[2])) >= thr

\* used.add(img1) as well as used.add(img2)
PairStep_MarksBoth(st, pair, table, thr) ==
    IF Skipped(st, pair) THEN st
    ELSE IF Qualifies(table, pair, thr)
         THEN [ groups |-> MergePair(st.groups, pair[1], pair[2]),
                used   |-> st.used \cup { pair[1], pair[2] } ]
         ELSE st

\* used.add(img2) left out
PairStep_NoMark(st, pair, table, thr) ==
    IF Skipped(st, pair) THEN st
    ELSE IF Qualifies(table, pair, thr)
         THEN [ groups |-> MergePair(st.groups, pair[1], pair[2]),
                used   |-> st.used ]
         ELSE st

\* one iteration of the pair loop on st = [groups, used]
PairStep(st, pair, table, thr) ==
    IF Skipped(st, pair) THEN st
    ELSE IF Qualifies(table, pair, thr)
         THEN [ groups |-> MergePair(st.groups, pair[1], pair[2]),
                used   |-> st.used \cup { pair[2] } ]
         ELSE st

\* the whole pair loop, the first n pairs
RECURSIVE PairLoop(_, _, _, _)
PairLoop(pairs, n, table, thr) ==
    IF n = 0 THEN [ groups |-> << >>, used |-> {} ]
    ELSE PairStep(PairLoop(pairs, n - 1, table, thr), pairs[n], table, thr)

\* the loop of lines 42-46 left out: no singleton is added
AddUngrouped_None(gs, items) == gs

\* "add ungrouped images": a singleton for every item in no group
AddUngrouped(gs, items) ==
    LET grouped == UNION Range(gs)
        IsUngrouped(img) == img \notin grouped
        rest == SelectSeq(items, IsUngrouped)
    IN  gs \o [ k \in 1 .. Len(rest) |-> { rest[k] } ]

\* group_similar_hashes(img_hashes, threshold)
group_similar_hashes(table, thr) ==
    LET items == Keys(table)
        pairs == Combinations2(items)
    IN  AddUngrouped(PairLoop(pairs, Len(pairs), table, thr).groups, items)

\* ------------------------------------------------------------------ main
\* f.lower()
Lower(ext) == IF ext = "JPG" THEN "jpg" ELSE ext

\* f.lower().endswith((".png", ".jpg", ".jpeg", ".bmp"))
IsImageName(f) == Lower(f.ext) \in ImageSuffixes

\* the list comprehension over os.listdir: the paths of the image entries
CollectImageFiles(entries) ==
    LET imgs == SelectSeq(entries, IsImageName)
    IN  [ k \in 1 .. Len(imgs) |-> imgs[k].name ]

\* what Image.open(path) reads
ContentOf(entries, path) ==
    entries[CHOOSE i \in 1 .. Len(entries) : entries[i].name = path].content

\* list(group): the members of a set in some order
Orderings(group) ==
    { o \in [ 1 .. Cardinality(group) -> group ] : Range(o) = group }

\* for dup in group: the kept member is listed for deletion as well
KeepDupPairs_KeepToo(order) ==
    [ k \in 1 .. Len(order) |-> << order[1], order[k] >> ]

\* keep = group[0]; for dup in group[1:]: (keep, dup)
KeepDupPairs(order) ==
    [ k \in 1 .. Len(order) - 1 |-> << order[1], order[k + 1] >> ]

\* find_similar.py, line 87: the duplicates count of the report variant
ReportDuplicateCount(n, gs) == n - Len(gs)

\* find_similar_fast_delete.py, lines 86-92 and 97: len(duplicates), one
\* pair for every member but one of every group of several
RECURSIVE DeleteDuplicateCount(_)
DeleteDuplicateCount(gs) ==
    IF gs = << >> THEN 0
    ELSE (IF Cardinality(Head(gs)) > 1 THEN Cardinality(Head(gs)) - 1 ELSE 0)
         + DeleteDuplicateCount(Tail(gs))

\* the printed lines
MsgNoImages == [ msg |-> "No images found." ]
MsgFound(n) == [ msg |-> "Found", total |-> n ]
MsgSkipping(path) == [ msg |-> "Skipping", path |-> path ]
MsgSummary(n, unique, dups) ==
    [ msg |-> "SUMMARY", total |-> n, unique |-> unique, dups |-> dups ]
MsgNothing == [ msg |-> "No duplicates found. Nothing to delete." ]
MsgKeepDelete(pair) == [ msg |-> "KEEP DELETE", keep |-> pair[1], dup |-> pair[2] ]
MsgDryRunFinished(n) == [ msg |-> "Dry-run finished", count |-> n ]
MsgFailed(path) == [ msg |-> "Failed to delete", path |-> path ]
MsgDeleted(n) == [ msg |-> "Deleted", count |-> n ]

\* the state main() starts in, for a directory holding the given entries
StartState(entries) ==
    /\ listing = entries
    /\ on_disk = { entries[i].name : i \in 1 .. Len(entries) }
    /\ pc = "start"
    /\ image_files = << >>
    /\ total = 0
    /\ img_hashes = << >>
    /\ hi = 0
    /\ groups = << >>
    /\ used = {}
    /\ pk = 0
    /\ todo = << >>
    /\ sims = {}
    /\ duplicates = << >>
    /\ gi = 0
    /\ di = 0
    /\ attempts = << >>
    /\ out = << >>

\* directory entries: entry i is named i; it is a .jpg image with some
\* fingerprint, a .JPG file PIL cannot decode, or a .txt file
DirEntry(i) ==
    [ name : { i }, ext : { "jpg" },
      content : { Decodable(h) : h \in FileFingerprints } ]
        \cup [ name : { i }, ext : { "JPG" }, content : { Undecodable } ]
        \cup [ name : { i }, ext : { "txt" }, content : { Undecodable } ]

Listings ==
    UNION { { l \in [ 1 .. n -> UNION { DirEntry(i) : i \in 1 .. n } ] :
                \A i \in 1 .. n : l[i].name = i } : n \in 0 .. MaxFiles }

Init ==
    /\ variant \in Variants
    /\ threshold \in Thresholds
    /\ dry_run \in BOOLEAN
    /\ variant = "report" => dry_run = FALSE
    /\ dir_exists \in BOOLEAN
    /\ \E entries \in Listings :
           /\ ~dir_exists => entries = << >>
           /\ StartState(entries)

\* the check of total == 0 left out
ListDir_NoEmptyCheck ==
    /\ pc = "start"
    /\ \/ /\ ~dir_exists
          /\ pc' = "crashed"
          /\ image_files' = image_files
          /\ total' = total
          /\ out' = out
       \/ /\ dir_exists
          /\ image_files' = CollectImageFiles(listing)
          /\ total' = Len(image_files')
          /\ out' = Append(out, MsgFound(total'))
          /\ pc' = "hash"
    /\ UNCHANGED << variant, dir_exists, listing, on_disk, threshold, dry_run,
                    img_hashes, hi, groups, used, pk, todo, sims, duplicates,
                    gi, di, attempts >>

\* lines 57-69: list the directory, keep the image files, stop when none
ListDir ==
    /\ pc = "start"
    /\ \/ /\ ~dir_exists
          /\ pc' = "crashed"
          /\ image_files' = image_files
          /\ total' = total
          /\ out' = out
       \/ /\ dir_exists
          /\ image_files' = CollectImageFiles(listing)
          /\ total' = Len(image_files')
          /\ IF total' = 0
             THEN out' = Append(out, MsgNoImages) /\ pc' = "done"
             ELSE out' = Append(out, MsgFound(total')) /\ pc' = "hash"
    /\ UNCHANGED << variant, dir_exists, listing, on_disk, threshold, dry_run,
                    img_hashes, hi, groups, used, pk, todo, sims, duplicates,
                    gi, di, attempts >>

\* Image.open outside any try: a file that does not decode ends the run
HashStep_NoExcept ==
    /\ pc = "hash"
    /\ hi < Len(image_files)
    /\ LET path == image_files[hi + 1]
           content == ContentOf(listing, path)
       IN  \/ /\ content.decodes
              /\ img_hashes' =
                     Append(img_hashes, [ path |-> path, hash |-> content.hash ])
              /\ pc' = pc
           \/ /\ ~content.decodes
              /\ img_hashes' = img_hashes
              /\ pc' = "crashed"
    /\ hi' = hi + 1
    /\ UNCHANGED << variant, dir_exists, listing, on_disk, threshold, dry_run,
                    image_files, total, groups, used, pk, todo, sims,
                    duplicates, gi, di, attempts, out >>

\* one iteration of the hashing loop: try Image.open / phash, except: print
HashStep ==
    /\ pc = "hash"
    /\ hi < Len(image_files)
    /\ LET path == image_files[hi + 1]
           content == ContentOf(listing, path)
       IN  \/ /\ content.decodes
              /\ img_hashes' =
                     Append(img_hashes, [ path |-> path, hash |-> content.hash ])
              /\ out' = out
           \/ /\ ~content.decodes
              /\ img_hashes' = img_hashes
              /\ out' = Append(out, MsgSkipping(path))
    /\ hi' = hi + 1
    /\ UNCHANGED << variant, dir_exists, listing, on_disk, threshold, dry_run,
                    pc, image_files, total, groups, used, pk, todo, sims,
                    duplicates, gi, di, attempts >>

\* the call made inside the hashing loop, before the table is complete
CallGrouper_Early ==
    /\ pc = "hash"
    /\ hi <= Len(image_files)
    /\ pc' = "group"
    /\ groups' = << >>
    /\ used' = {}
    /\ pk' = 0
    /\ todo' = Combinations2(Keys(img_hashes))
    /\ UNCHANGED << variant, dir_exists, listing, on_disk, threshold, dry_run,
                    image_files, total, img_hashes, hi, sims, duplicates, gi,
                    di, attempts, out >>

\* the call of group_similar_hashes: groups = [], used = set()
CallGrouper ==
    /\ pc = "hash"
    /\ hi = Len(image_files)
    /\ pc' = "group"
    /\ groups' = << >>
    /\ used' = {}
    /\ pk' = 0
    /\ todo' = Combinations2(Keys(img_hashes))
    /\ UNCHANGED << variant, dir_exists, listing, on_disk, threshold, dry_run,
                    image_files, total, img_hashes, hi, sims, duplicates, gi,
                    di, attempts, out >>

\* the pairs taken in no fixed order, as from a set
GroupPairStep_AnyOrder ==
    /\ pc = "group"
    /\ todo # << >>
    /\ \E k \in 1 .. Len(todo) :
           LET pair == todo[k]
               st == [ groups |-> groups, used |-> used ]
               nxt == PairStep(st, pair, img_hashes, threshold)
           IN  /\ groups' = nxt.groups
               /\ used' = nxt.used
               /\ sims' = IF Skipped(st, pair) THEN sims ELSE sims \cup { pair }
               /\ todo' = [ j \in 1 .. Len(todo) - 1 |->
                              IF j < k THEN todo[j] ELSE todo[j + 1] ]
    /\ pk' = pk + 1
    /\ UNCHANGED << variant, dir_exists, listing, on_disk, threshold, dry_run,
                    pc, image_files, total, img_hashes, hi, duplicates, gi,
                    di, attempts, out >>

\* one iteration of the pair loop of group_similar_hashes
GroupPairStep ==
    /\ pc = "group"
    /\ todo # << >>
    /\ LET pair == Head(todo)
           st == [ groups |-> groups, used |-> used ]
       IN  /\ \E nxt \in { PairStep(st, pair, img_hashes, threshold) } :
                  groups' = nxt.groups /\ used' = nxt.used
           /\ sims' = IF Skipped(st, pair) THEN sims ELSE sims \cup { pair }
    /\ todo' = Tail(todo)
    /\ pk' = pk + 1
    /\ UNCHANGED << variant, dir_exists, listing, on_disk, threshold, dry_run,
                    pc, image_files, total, img_hashes, hi, duplicates, gi,
                    di, attempts, out >>

\* lines 42-47: the singletons are added and the groups are returned
GrouperReturn ==
    /\ pc = "group"
    /\ todo = << >>
    /\ groups' = AddUngrouped(groups, Keys(img_hashes))
    /\ pc' = IF variant = "report" THEN "summary" ELSE "dups"
    /\ UNCHANGED << variant, dir_exists, listing, on_disk, threshold, dry_run,
                    image_files, total, img_hashes, hi, used, pk, todo, sims,
                    duplicates, gi, di, attempts, out >>

\* find_similar.py, lines 84-87
ReportSummary ==
    /\ pc = "summary"
    /\ variant = "report"
    /\ out' = Append(out, MsgSummary(total, Len(groups), total - Len(groups)))
    /\ pc' = "done"
    /\ UNCHANGED << variant, dir_exists, listing, on_disk, threshold, dry_run,
                    image_files, total, img_hashes, hi, groups, used, pk,
                    todo, sims, duplicates, gi, di, attempts >>

\* find_similar_fast_delete.py, lines 87-92: one group of the duplicates loop
DuplicatesStep ==
    /\ pc = "dups"
    /\ gi < Len(groups)
    /\ LET group == groups[gi + 1]
       IN  \/ /\ Cardinality(group) > 1
              /\ \E order \in Orderings(group) :
                     duplicates' = duplicates \o KeepDupPairs(order)
           \/ /\ Cardinality(group) <= 1
              /\ duplicates' = duplicates
    /\ gi' = gi + 1
    /\ UNCHANGED << variant, dir_exists, listing, on_disk, threshold, dry_run,
                    pc, image_files, total, img_hashes, hi, groups, used, pk,
                    todo, sims, di, attempts, out >>

\* the dry-run flag is not looked at
DeleteSummary_IgnoresDryRun ==
    /\ pc = "dups"
    /\ gi = Len(groups)
    /\ LET summary == MsgSummary(total, Len(groups), Len(duplicates))
       IN  \/ /\ duplicates = << >>
              /\ out' = out \o << summary, MsgNothing >>
              /\ pc' = "done"
           \/ /\ duplicates # << >>
              /\ out' = Append(out, summary)
              /\ pc' = "delete"
    /\ UNCHANGED << variant, dir_exists, listing, on_disk, threshold, dry_run,
                    image_files, total, img_hashes, hi, groups, used, pk,
                    todo, sims, duplicates, gi, di, attempts >>

\* the check of `not duplicates` left out
DeleteSummary_NoEmptyCheck ==
    /\ pc = "dups"
    /\ gi = Len(groups)
    /\ out' = Append(out, MsgSummary(total, Len(groups), Len(duplicates)))
    /\ pc' = IF dry_run THEN "dryrun" ELSE "delete"
    /\ UNCHANGED << variant, dir_exists, listing, on_disk, threshold, dry_run,
                    image_files, total, img_hashes, hi, groups, used, pk,
                    todo, sims, duplicates, gi, di, attempts >>

\* find_similar_fast_delete.py, lines 94-101 and the branch of line 103
DeleteSummary ==
    /\ pc = "dups"
    /\ gi = Len(groups)
    /\ LET summary == MsgSummary(total, Len(groups), Len(duplicates))
       IN  \/ /\ duplicates = << >>
              /\ out' = out \o << summary, MsgNothing >>
              /\ pc' = "done"
           \/ /\ duplicates # << >>
              /\ out' = Append(out, summary)
              /\ pc' = IF dry_run THEN "dryrun" ELSE "delete"
    /\ UNCHANGED << variant, dir_exists, listing, on_disk, threshold, dry_run,
                    image_files, total, img_hashes, hi, groups, used, pk,
                    todo, sims, duplicates, gi, di, attempts >>

\* lines 104-107: every pair is printed, nothing is removed
DryRunReport ==
    /\ pc = "dryrun"
    /\ out' = out \o [ k \in 1 .. Len(duplicates) |-> MsgKeepDelete(duplicates[k]) ]
                  \o << MsgDryRunFinished(Len(duplicates)) >>
    /\ pc' = "done"
    /\ UNCHANGED << variant, dir_exists, listing, on_disk, threshold, dry_run,
                    image_files, total, img_hashes, hi, groups, used, pk,
                    todo, sims, duplicates, gi, di, attempts >>

\* os.remove outside any try: its exception ends the run
DeleteStep_NoExcept ==
    /\ pc = "delete"
    /\ di < Len(duplicates)
    /\ LET dup == duplicates[di + 1][2]
       IN  \/ /\ dup \in on_disk
              /\ on_disk' = on_disk \ { dup }
              /\ attempts' = Append(attempts, [ path |-> dup, ok |-> TRUE ])
              /\ pc' = pc
           \/ /\ on_disk' = on_disk
              /\ attempts' = Append(attempts, [ path |-> dup, ok |-> FALSE ])
              /\ pc' = "crashed"
    /\ di' = di + 1
    /\ UNCHANGED << variant, dir_exists, listing, threshold, dry_run,
                    image_files, total, img_hashes, hi, groups, used, pk,
                    todo, sims, duplicates, gi, out >>

\* lines 110-114: one iteration of the deleting loop; os.remove removes the
\* file or raises, and a file that is gone cannot be removed
DeleteStep ==
    /\ pc = "delete"
    /\ di < Len(duplicates)
    /\ LET dup == duplicates[di + 1][2]
       IN  \/ /\ dup \in on_disk
              /\ on_disk' = on_disk \ { dup }
              /\ attempts' = Append(attempts, [ path |-> dup, ok |-> TRUE ])
              /\ out' = out
           \/ /\ on_disk' = on_disk
              /\ attempts' = Append(attempts, [ path |-> dup, ok |-> FALSE ])
              /\ out' = Append(out, MsgFailed(dup))
    /\ di' = di + 1
    /\ UNCHANGED << variant, dir_exists, listing, threshold, dry_run, pc,
                    image_files, total, img_hashes, hi, groups, used, pk,
                    todo, sims, duplicates, gi >>

\* line 115
DeleteFinish ==
    /\ pc = "delete"
    /\ di = Len(duplicates)
    /\ out' = Append(out, MsgDeleted(Len(duplicates)))
    /\ pc' = "done"
    /\ UNCHANGED << variant, dir_exists, listing, on_disk, threshold, dry_run,
                    image_files, total, img_hashes, hi, groups, used, pk,
                    todo, sims, duplicates, gi, di, attempts >>

Next ==
    \/ ListDir
    \/ HashStep
    \/ CallGrouper
    \/ GroupPairStep
    \/ GrouperReturn
    \/ ReportSummary
    \/ DuplicatesStep
    \/ DeleteSummary
    \/ DryRunReport
    \/ DeleteStep
    \/ DeleteFinish

Spec == Init /\ [][Next]_vars

\* main() is one sequential process: a step that can be taken is taken
FairSpec == Spec /\ WF_vars(Next)

\* --------------------------------------------- the Grouper on its own table
\* a Fingerprint Table of n images, listed and decoded in the order 1 .. n
Tables ==
    UNION { [ 1 .. n -> Fingerprints ] : n \in 1 .. MaxImages }

\* main() at its call of group_similar_hashes, every listed file an image
\* that decoded
InitGrouper ==
    /\ variant = "report"
    /\ threshold \in GrouperThresholds
    /\ dry_run = FALSE
    /\ dir_exists = TRUE
    /\ \E t \in Tables :
           /\ listing = [ i \in 1 .. Len(t) |->
                            [ name |-> i, ext |-> "jpg", content |-> Decodable(t[i]) ] ]
           /\ img_hashes = [ i \in 1 .. Len(t) |-> [ path |-> i, hash |-> t[i] ] ]
           /\ on_disk = 1 .. Len(t)
           /\ image_files = [ i \in 1 .. Len(t) |-> i ]
           /\ total = Len(t)
           /\ hi = Len(t)
           /\ out = << MsgFound(Len(t)) >>
    /\ pc = "group"
    /\ groups = << >>
    /\ used = {}
    /\ pk = 0
    /\ todo = Combinations2(Keys(img_hashes))
    /\ sims = {}
    /\ duplicates = << >>
    /\ gi = 0
    /\ di = 0
    /\ attempts = << >>

NextGrouper ==
    \/ GroupPairStep
    \/ GrouperReturn

SpecGrouper == InitGrouper /\ [][NextGrouper]_vars

\* ------------------------------- the Grouper over every order of a table
\* bounds of the tables whose orders are compared
MaxKeys == 3
KeyBits == 2

\* the fingerprints of those tables: their 1 bits among the first KeyBits
KeyFingerprints == SUBSET (1 .. KeyBits)

\* the tables of up to MaxKeys images, every insertion order of each
OrderedTables ==
    UNION { [ 1 .. n -> KeyFingerprints ] : n \in 1 .. MaxKeys }

\* main() at its call of group_similar_hashes, as in InitGrouper
InitOrders ==
    /\ variant = "report"
    /\ threshold \in GrouperThresholds
    /\ dry_run = FALSE
    /\ dir_exists = TRUE
    /\ \E t \in OrderedTables :
           /\ listing = [ i \in 1 .. Len(t) |->
                            [ name |-> i, ext |-> "jpg", content |-> Decodable(t[i]) ] ]
           /\ img_hashes = [ i \in 1 .. Len(t) |-> [ path |-> i, hash |-> t[i] ] ]
           /\ on_disk = 1 .. Len(t)
           /\ image_files = [ i \in 1 .. Len(t) |-> i ]
           /\ total = Len(t)
           /\ hi = Len(t)
           /\ out = << MsgFound(Len(t)) >>
    /\ pc = "group"
    /\ groups = << >>
    /\ used = {}
    /\ pk = 0
    /\ todo = Combinations2(Keys(img_hashes))
    /\ sims = {}
    /\ duplicates = << >>
    /\ gi = 0
    /\ di = 0
    /\ attempts = << >>

SpecOrders == InitOrders /\ [][NextGrouper]_vars

\* --------------------------- the Grouper at the thresholds 95 and 96 percent
\* bound of the tables compared at two thresholds
MaxBlockImages == 4

\* fingerprints whose 1 bits are one block of bits, or none: two of them are
\* 2 bits from the empty one and 4 from each other, the third 3 bits from the
\* empty one and 5 from the others
ImageBlocks == { {}, { 1, 2 }, { 3, 4 }, { 5, 6, 7 } }

\* the tables of up to MaxBlockImages such images
BlockTables ==
    UNION { [ 1 .. n -> ImageBlocks ] : n \in 1 .. MaxBlockImages }

\* --threshold 95 and the default: distance 3 (95.3125) qualifies at the
\* first only, distance 2 (96.875) at both
BlockThresholds == { 95 * PctUnit, DefaultThreshold * PctUnit }

\* main() at its call of group_similar_hashes, as in InitGrouper
InitBlocks ==
    /\ variant = "report"
    /\ threshold \in BlockThresholds
    /\ dry_run = FALSE
    /\ dir_exists = TRUE
    /\ \E t \in BlockTables :
           /\ listing = [ i \in 1 .. Len(t) |->
                            [ name |-> i, ext |-> "jpg", content |-> Decodable(t[i]) ] ]
           /\ img_hashes = [ i \in 1 .. Len(t) |-> [ path |-> i, hash |-> t[i] ] ]
           /\ on_disk = 1 .. Len(t)
           /\ image_files = [ i \in 1 .. Len(t) |-> i ]
           /\ total = Len(t)
           /\ hi = Len(t)
           /\ out = << MsgFound(Len(t)) >>
    /\ pc = "group"
    /\ groups = << >>
    /\ used = {}
    /\ pk = 0
    /\ todo = Combinations2(Keys(img_hashes))
    /\ sims = {}
    /\ duplicates = << >>
    /\ gi = 0
    /\ di = 0
    /\ attempts = << >>

SpecBlocks == InitBlocks /\ [][NextGrouper]_vars

\* ------------------------ the delete script in execute mode, from the call
\* main() of find_similar_fast_delete.py without --dry-run at its call of
\* group_similar_hashes, every listed file an image that decoded
InitDedup ==
    /\ variant = "delete"
    /\ threshold \in GrouperThresholds
    /\ dry_run = FALSE
    /\ dir_exists = TRUE
    /\ \E t \in OrderedTables :
           /\ listing = [ i \in 1 .. Len(t) |->
                            [ name |-> i, ext |-> "jpg", content |-> Decodable(t[i]) ] ]
           /\ img_hashes = [ i \in 1 .. Len(t) |-> [ path |-> i, hash |-> t[i] ] ]
           /\ on_disk = 1 .. Len(t)
           /\ image_files = [ i \in 1 .. Len(t) |-> i ]
           /\ total = Len(t)
           /\ hi = Len(t)
           /\ out = << MsgFound(Len(t)) >>
    /\ pc = "group"
    /\ groups = << >>
    /\ used = {}
    /\ pk = 0
    /\ todo = Combinations2(Keys(img_hashes))
    /\ sims = {}
    /\ duplicates = << >>
    /\ gi = 0
    /\ di = 0
    /\ attempts = << >>

\* lines 84-115 of find_similar_fast_delete.py
NextDedup ==
    \/ GroupPairStep
    \/ GrouperReturn
    \/ DuplicatesStep
    \/ DeleteSummary
    \/ DeleteStep
    \/ DeleteFinish

SpecDedup == InitDedup /\ [][NextDedup]_vars

\* ------------------------------------------------------------ properties
\* group_similar_hashes has returned its list of groups to main()
GroupsReturned ==
    \/ pc \in { "summary", "dups", "dryrun", "delete" }
    \/ pc = "done" /\ total > 0

TableKeys == Range(Keys(img_hashes))

\* Similarity Percentage of two keys of the Fingerprint Table
Sim(x, y) == hamming_similarity(HashOf(img_hashes, x), HashOf(img_hashes, y))

Dist(x, y) == HammingDistance(HashOf(img_hashes, x), HashOf(img_hashes, y))

\* position of a key in the key order of the table
PosOf(x) == CHOOSE i \in 1 .. Len(img_hashes) : img_hashes[i].path = x

\* the earliest member of a group in key enumeration order
Earliest(g) == CHOOSE x \in g : \A y \in g : PosOf(x) <= PosOf(y)

SameGroup(gs, x, y) == \E k \in 1 .. Len(gs) : x \in gs[k] /\ y \in gs[k]

\* size of the group that holds img
GroupSize(gs, img) == Cardinality(CHOOSE g \in Range(gs) : img \in g)

\* C1: the returned groups are a partition of the keys of the Fingerprint
\* Table: their union is the key set, none is empty, and no key is in two.
C1_Partition ==
    GroupsReturned =>
        /\ UNION Range(groups) = TableKeys
        /\ \A k \in 1 .. Len(groups) : groups[k] # {}
        /\ \A k, l \in 1 .. Len(groups) :
               k # l => groups[k] \cap groups[l] = {}

\* a returned partition of three images into a pair, merged through its
\* first member twice or once, and a non-trivial rest
C1_Witness ==
    /\ GroupsReturned
    /\ Len(img_hashes) = 3
    /\ \E k \in 1 .. Len(groups) : Cardinality(groups[k]) >= 2
    /\ Cardinality(used) >= 1
    /\ Len(groups) = 2

\* C2, as claimed: any two members of a returned group have Similarity
\* Percentage >= threshold.
C2_MutuallySimilar ==
    GroupsReturned =>
        \A k \in 1 .. Len(groups) :
            \A x, y \in groups[k] : Sim(x, y) >= threshold

\* C2, amended: every member of a returned group other than its earliest
\* member in key order has Similarity Percentage >= threshold to that
\* earliest member.
C2_SimilarToEarliest ==
    GroupsReturned =>
        \A k \in 1 .. Len(groups) :
            \A x \in groups[k] \ { Earliest(groups[k]) } :
                Sim(Earliest(groups[k]), x) >= threshold

\* a returned group of three whose two later members are not similar to each
\* other
C2_Witness ==
    /\ GroupsReturned
    /\ \E k \in 1 .. Len(groups) :
           /\ Cardinality(groups[k]) = 3
           /\ \E x, y \in groups[k] \ { Earliest(groups[k]) } :
                  Sim(x, y) < threshold

\* C3, as claimed: for the same table and key order, no image is in a larger
\* group at a higher threshold than at a lower one.
C3_ThresholdMonotone ==
    GroupsReturned =>
        \A t \in GrouperThresholds : \A img \in TableKeys :
            LET other == group_similar_hashes(img_hashes, t)
            IN  /\ t >= threshold =>
                       GroupSize(other, img) <= GroupSize(groups, img)
                /\ t <= threshold =>
                       GroupSize(groups, img) <= GroupSize(other, img)

\* C4: two keys with identical fingerprints have Similarity Percentage 100
\* and are in the same returned group at every threshold <= 100.
C4_IdenticalTogether ==
    GroupsReturned =>
        LET twins == { p \in TableKeys \X TableKeys :
                         /\ PosOf(p[1]) < PosOf(p[2])
                         /\ HashOf(img_hashes, p[1]) = HashOf(img_hashes, p[2]) }
        IN  /\ \A p \in twins :
                   /\ Sim(p[1], p[2]) = 100 * PctUnit
                   /\ threshold <= 100 * PctUnit =>
                          SameGroup(groups, p[1], p[2])
            /\ twins # {} =>
                   \A t \in Thresholds :
                       t <= 100 * PctUnit =>
                           LET gs == group_similar_hashes(img_hashes, t)
                           IN  \A p \in twins : SameGroup(gs, p[1], p[2])

\* two identical images with a different one listed between them, at
\* threshold 100, the two in one group and the third in another
C4_Witness ==
    /\ GroupsReturned
    /\ threshold = 100 * PctUnit
    /\ Len(img_hashes) = 3
    /\ img_hashes[1].hash = img_hashes[3].hash
    /\ img_hashes[1].hash # img_hashes[2].hash
    /\ SameGroup(groups, img_hashes[1].path, img_hashes[3].path)
    /\ ~SameGroup(groups, img_hashes[1].path, img_hashes[2].path)

\* C5: a pair the loop has compared (neither element in `used`) whose
\* Similarity Percentage equals the threshold is in one group from then on;
\* a table of two such images is returned as one group of size 2.
C5_BoundaryMerges ==
    /\ \A pair \in sims :
           Sim(pair[1], pair[2]) = threshold =>
               SameGroup(groups, pair[1], pair[2])
    /\ ( /\ GroupsReturned
         /\ Len(img_hashes) = 2
         /\ Sim(img_hashes[1].path, img_hashes[2].path) = threshold )
           => groups = << { img_hashes[1].path, img_hashes[2].path } >>

\* a compared pair at distance 1 under threshold 98.4375, which is exactly
\* its similarity
C5_Witness ==
    /\ GroupsReturned
    /\ \E pair \in sims :
           /\ Dist(pair[1], pair[2]) = 1
           /\ Sim(pair[1], pair[2]) = threshold
           /\ SameGroup(groups, pair[1], pair[2])

\* C6: a call of group_similar_hashes leaves the Fingerprint Table as it
\* was, and the list it returns is determined by the table, its key order
\* and the threshold alone.
C6_Deterministic ==
    [][ pc = "group" =>
            /\ img_hashes' = img_hashes
            /\ pc' # "group" =>
                   groups' = group_similar_hashes(img_hashes, threshold)
      ]_vars

\* a call has returned two groups for three images after merging a pair
C6_Witness ==
    /\ GroupsReturned
    /\ Len(img_hashes) = 3
    /\ Len(groups) = 2
    /\ groups = group_similar_hashes(img_hashes, threshold)
    /\ pk = 3

\* the similarity as a function of the distance alone, over every distance
\* of two 64-bit fingerprints: strictly decreasing, and at least the default
\* threshold exactly up to distance 2
SimilarityByDistance ==
    /\ \A d \in 0 .. MaxBits - 1 :
           SimilarityAt(d, MaxBits) > SimilarityAt(d + 1, MaxBits)
    /\ \A d \in 0 .. MaxBits :
           SimilarityAt(d, MaxBits) >= DefaultThreshold * PctUnit <=> d <= 2

\* C7: the Similarity Percentage is 100 * (1 - distance / 64): symmetric,
\* within 0 .. 100, 100 exactly for identical fingerprints, strictly
\* decreasing in the distance; at the default threshold 96.0 a compared pair
\* qualifies exactly when its distance is at most 2.  (The part that depends
\* on no table is evaluated once per threshold, on the one-image tables.)
C7_SimilarityFormula ==
    /\ GroupsReturned =>
           \A x, y \in TableKeys :
               LET sim == Sim(x, y)
                   dist == Dist(x, y)
               IN  /\ sim = Sim(y, x)
                   /\ sim >= 0
                   /\ sim <= 100 * PctUnit
                   /\ sim = 100 * PctUnit <=>
                          HashOf(img_hashes, x) = HashOf(img_hashes, y)
                   /\ sim * MaxBits = 100 * PctUnit * (MaxBits - dist)
                   /\ sim >= DefaultThreshold * PctUnit <=> dist <= 2
    /\ (GroupsReturned /\ Len(img_hashes) = 1) => SimilarityByDistance
    /\ threshold = DefaultThreshold * PctUnit =>
           \A pair \in sims :
               SameGroup(groups, pair[1], pair[2]) <=>
                   Dist(pair[1], pair[2]) <= 2

\* at the default threshold a compared pair at distance 2 is merged and a
\* compared pair at distance 3 is not
C7_Witness ==
    /\ GroupsReturned
    /\ threshold = DefaultThreshold * PctUnit
    /\ \E p, q \in sims :
           /\ Dist(p[1], p[2]) = 2
           /\ SameGroup(groups, p[1], p[2])
           /\ Dist(q[1], q[2]) = 3
           /\ ~SameGroup(groups, q[1], q[2])

\* the files the directory held when the run started
InitialFiles == { listing[i].name : i \in 1 .. Len(listing) }

\* the (keep, delete) pairs the run has printed, in order
IsKeepDelete(m) == m.msg = "KEEP DELETE"
PrintedPairs ==
    LET lines == SelectSeq(out, IsKeepDelete)
    IN  [ k \in 1 .. Len(lines) |-> << lines[k].keep, lines[k].dup >> ]

KeepSet == { duplicates[k][1] : k \in 1 .. Len(duplicates) }
DupSet == { duplicates[k][2] : k \in 1 .. Len(duplicates) }

\* C8: a delete-mode run with the dry-run flag never removes a file and never
\* calls os.remove: the directory holds the files it held at the start; and
\* when the run has ended, every (keep, delete) pair has been printed.
C8_DryRunFrame ==
    (variant = "delete" /\ dry_run) =>
        /\ on_disk = InitialFiles
        /\ attempts = << >>
        /\ (pc = "done" /\ total > 0) => PrintedPairs = duplicates

\* a finished dry run that has reported two pairs
C8_Witness ==
    /\ variant = "delete"
    /\ dry_run
    /\ pc = "done"
    /\ Len(duplicates) = 2
    /\ PrintedPairs = duplicates
    /\ on_disk = InitialFiles

\* C9: after a delete-mode run without dry-run in which every removal
\* succeeded, exactly one member of every group is on disk, in a group of
\* several it is the designated keep, the removed files are exactly the
\* delete candidates, all of them members of groups of several; and at any
\* time no file is both a keep and a delete candidate, nor a delete candidate
\* twice.
C9_ExecuteResult ==
    /\ variant = "delete" =>
           /\ KeepSet \cap DupSet = {}
           /\ Cardinality(DupSet) = Len(duplicates)
    /\ ( /\ variant = "delete"
         /\ ~dry_run
         /\ pc = "done"
         /\ total > 0
         /\ \A k \in 1 .. Len(attempts) : attempts[k].ok )
           => /\ \A k \in 1 .. Len(groups) :
                     /\ Cardinality(groups[k] \cap on_disk) = 1
                     /\ Cardinality(groups[k]) > 1 =>
                            groups[k] \cap on_disk \subseteq KeepSet
              /\ InitialFiles \ on_disk = DupSet
              /\ DupSet \subseteq
                     UNION { groups[k] : k \in
                               { l \in 1 .. Len(groups) :
                                   Cardinality(groups[l]) > 1 } }

\* a finished execute run that removed one of two similar images and left a
\* file that did not decode
C9_Witness ==
    /\ variant = "delete"
    /\ ~dry_run
    /\ pc = "done"
    /\ Len(attempts) = 1
    /\ attempts[1].ok
    /\ Cardinality(on_disk) = 2
    /\ \E i \in 1 .. Len(listing) : ~listing[i].content.decodes

\* C10: in execute mode the os.remove calls made so far are the first di
\* delete candidates, one call each and in list order; after any of them,
\* failed or not, the loop goes on or ends with the final line; the run never
\* ends in an exception, and when it has ended every candidate has had its
\* call.
C10_FailuresNonFatal ==
    (variant = "delete" /\ ~dry_run) =>
        /\ Len(attempts) = di
        /\ \A k \in 1 .. Len(attempts) : attempts[k].path = duplicates[k][2]
        /\ pc = "delete" => ENABLED (DeleteStep \/ DeleteFinish)
        /\ dir_exists => pc # "crashed"
        /\ (pc = "done" /\ duplicates # << >>) =>
               /\ di = Len(duplicates)
               /\ out[Len(out)] = MsgDeleted(Len(duplicates))

\* a finished execute run whose first removal failed and whose second
\* succeeded
C10_Witness ==
    /\ variant = "delete"
    /\ ~dry_run
    /\ pc = "done"
    /\ Len(attempts) = 2
    /\ ~attempts[1].ok
    /\ attempts[2].ok

\* the listed image files PIL cannot decode, and those it can, in order
IsBadImage(f) == IsImageName(f) /\ ~f.content.decodes
IsGoodImage(f) == IsImageName(f) /\ f.content.decodes
BadImages == { f.name : f \in { g \in Range(listing) : IsBadImage(g) } }
GoodImageSeq ==
    LET good == SelectSeq(listing, IsGoodImage)
    IN  [ k \in 1 .. Len(good) |-> good[k].name ]

\* C11: an image file that fails to decode is no key of the Fingerprint
\* Table, is in no group, is no keep and no delete candidate, is never handed
\* to os.remove and stays on disk; the run does not end in an exception, and
\* the table handed to the Grouper holds every other listed image, in listing
\* order, all of which are grouped.
C11_DecodeFailureExcluded ==
    dir_exists =>
        /\ pc # "crashed"
        /\ BadImages \cap TableKeys = {}
        /\ BadImages \cap UNION Range(groups) = {}
        /\ BadImages \cap (KeepSet \cup DupSet) = {}
        /\ BadImages \subseteq on_disk
        /\ \A k \in 1 .. Len(attempts) : attempts[k].path \notin BadImages
        /\ \A b \in BadImages :
               (pc \notin { "start", "hash" }) =>
                   \E k \in 1 .. Len(out) : out[k] = MsgSkipping(b)
        /\ pc \notin { "start", "hash" } => Keys(img_hashes) = GoodImageSeq
        /\ GroupsReturned => UNION Range(groups) = Range(GoodImageSeq)

\* a finished execute run over an undecodable file listed first and two
\* similar images after it, one of which was removed
C11_Witness ==
    /\ variant = "delete"
    /\ ~dry_run
    /\ pc = "done"
    /\ Len(listing) = 3
    /\ IsBadImage(listing[1])
    /\ Len(img_hashes) = 2
    /\ Len(groups) = 1
    /\ Len(attempts) = 1
    /\ attempts[1].ok
    /\ listing[1].name \in on_disk

\* the files the run has removed from the directory
RemovedFiles == InitialFiles \ on_disk

\* C12, as claimed: the count in the last line of a finished execute run is
\* the number of files the run removed from disk.
C12_CountIsRemoved ==
    ( /\ variant = "delete"
      /\ ~dry_run
      /\ pc = "done"
      /\ duplicates # << >> )
        => /\ out[Len(out)].msg = "Deleted"
           /\ out[Len(out)].count = Cardinality(RemovedFiles)

\* the summary each variant prints for the listing and groups of this run
ReportSummaryLine ==
    MsgSummary(total, Len(groups), ReportDuplicateCount(total, groups))
DeleteSummaryLine ==
    MsgSummary(total, Len(groups), DeleteDuplicateCount(groups))

\* C13, as claimed: the summary a run prints, in either variant, is the
\* summary the report variant and the delete variant print for this
\* directory and threshold: the same total, number of groups and number of
\* duplicates.
C13_SameSummary ==
    \A k \in 1 .. Len(out) :
        out[k].msg = "SUMMARY" =>
            /\ out[k] = ReportSummaryLine
            /\ out[k] = DeleteSummaryLine

\* what does hold of the two summaries: each variant prints its own line,
\* and the two lines agree when every listed image file decoded
C13_SummariesWhenAllDecode ==
    \A k \in 1 .. Len(out) :
        out[k].msg = "SUMMARY" =>
            /\ variant = "report" => out[k] = ReportSummaryLine
            /\ variant = "delete" => out[k] = DeleteSummaryLine
            /\ BadImages = {} => ReportSummaryLine = DeleteSummaryLine

\* C14, as claimed: a run whose input directory does not exist ends early
\* with a message, as a run over a directory without image files does: it
\* ends normally, having printed a line.
C14_MissingDirReported ==
    (~dir_exists /\ pc # "start") => (pc = "done" /\ out # << >>)

\* the directory exists and no entry has a recognized image extension
NoImageEntries == dir_exists /\ \A i \in 1 .. Len(listing) : ~IsImageName(listing[i])

\* C15: over a directory without an entry of a recognized image extension
\* the run prints "No images found." and ends; it opens and fingerprints no
\* file, compares no pair, makes no group and removes nothing.
C15_EmptyInput ==
    (NoImageEntries /\ pc # "start") =>
        /\ pc = "done"
        /\ out = << MsgNoImages >>
        /\ hi = 0
        /\ img_hashes = << >>
        /\ pk = 0
        /\ sims = {}
        /\ groups = << >>
        /\ duplicates = << >>
        /\ attempts = << >>
        /\ on_disk = InitialFiles

\* a finished delete run over a directory that holds two files, neither an
\* image
C15_Witness ==
    /\ NoImageEntries
    /\ variant = "delete"
    /\ ~dry_run
    /\ Len(listing) = 2
    /\ pc = "done"
    /\ out = << MsgNoImages >>

\* every returned group has one member
AllSingletons == \A k \in 1 .. Len(groups) : Cardinality(groups[k]) = 1

\* C16: when every returned group is a singleton, the delete variant finds
\* its duplicates list empty, prints the summary and "Nothing to delete" and
\* ends; it never reaches the dry-run report or the deleting loop, calls
\* os.remove for no file and leaves the directory as it was, with and without
\* the dry-run flag.
C16_NoDuplicates ==
    (variant = "delete" /\ GroupsReturned /\ AllSingletons) =>
        /\ duplicates = << >>
        /\ attempts = << >>
        /\ on_disk = InitialFiles
        /\ pc \in { "dups", "done" }
        /\ pc = "done" =>
               /\ Len(out) >= 2
               /\ out[Len(out)] = MsgNothing
               /\ out[Len(out) - 1] = MsgSummary(total, Len(groups), 0)

\* a finished run without dry-run over three images, no two similar
C16_Witness ==
    /\ variant = "delete"
    /\ ~dry_run
    /\ pc = "done"
    /\ Len(groups) = 3
    /\ AllSingletons
    /\ out[Len(out)] = MsgNothing

\* the table holds three images: a and b with the same fingerprint and c
\* with Similarity Percentage below the threshold to both
TwoCopiesAndAStranger(a, b, c) ==
    /\ Len(img_hashes) = 3
    /\ { a, b, c } = TableKeys
    /\ a # b
    /\ HashOf(img_hashes, a) = HashOf(img_hashes, b)
    /\ Sim(a, c) < threshold
    /\ Sim(b, c) < threshold

\* the duplicates counts of the summaries printed so far
PrintedDuplicateCounts ==
    { out[k].dups : k \in { j \in 1 .. Len(out) : out[j].msg = "SUMMARY" } }

NoQualifyingPair ==
    \A x, y \in TableKeys : x # y => Sim(x, y) < threshold

\* C18: when no pair of images of the table qualifies, no comparison was
\* recorded as a merge, every returned group is a singleton, in key order,
\* and there are as many groups as keys.
C18_NoPairNoGroup ==
    (GroupsReturned /\ NoQualifyingPair) =>
        /\ AllSingletons
        /\ Len(groups) = Len(img_hashes)
        /\ groups = [ k \in 1 .. Len(img_hashes) |-> { img_hashes[k].path } ]
        /\ used = {}

\* threshold 100 and three images, every two differing in at least one bit
C18_Witness ==
    /\ GroupsReturned
    /\ threshold = 100 * PctUnit
    /\ Len(img_hashes) = 3
    /\ \A x, y \in TableKeys : x # y => Dist(x, y) >= 1
    /\ groups = << { 1 }, { 2 }, { 3 } >>

\* the relation "Similarity Percentage >= threshold" on the keys of the table
Linked(x, y) == Sim(x, y) >= threshold

\* the relation is transitive on the table
LinkedIsTransitive ==
    \A x, y, z \in TableKeys : (Linked(x, y) /\ Linked(y, z)) => Linked(x, z)

\* the keys a set of keys reaches through chains of linked keys
RECURSIVE Reachable(_)
Reachable(S) ==
    LET more == S \cup { y \in TableKeys : \E x \in S : Linked(x, y) }
    IN  IF more = S THEN S ELSE Reachable(more)

\* the connected components of the relation: what union-find would return
Components == { Reachable({ x }) : x \in TableKeys }

\* two linked keys that the returned groups keep apart
SplitLink(gs) ==
    \E x, y \in TableKeys : Linked(x, y) /\ ~SameGroup(gs, x, y)

\* C19: the returned groups are not in general the connected components of
\* the relation "Similarity Percentage >= threshold". Every group lies
\* inside one component, and the groups are the components when the relation
\* is transitive on the table; but two linked images can be in different
\* groups (C19_Witness), and then there are more groups than components.
C19_GroupsRefineComponents ==
    GroupsReturned =>
        /\ \A k \in 1 .. Len(groups) : \E c \in Components : groups[k] \subseteq c
        /\ LinkedIsTransitive => Range(groups) = Components
        /\ SplitLink(groups) <=> Range(groups) # Components
        /\ SplitLink(groups) => Len(groups) > Cardinality(Components)

\* the table 00, 01, 11 at threshold 98.4375: the first image takes the
\* second, and the third, one bit from the second, is left alone, where the
\* components are one set of three
C19_Witness ==
    /\ GroupsReturned
    /\ threshold = 1575
    /\ Len(img_hashes) = 3
    /\ img_hashes[1].hash = {}
    /\ img_hashes[2].hash = { 1 }
    /\ img_hashes[3].hash = { 1, 2 }
    /\ Linked(2, 3)
    /\ groups = << { 1, 2 }, { 3 } >>
    /\ Components = { { 1, 2, 3 } }

\* the insertion orders of the table: the permutations of its positions
InsertionOrders ==
    { p \in [ 1 .. Len(img_hashes) -> 1 .. Len(img_hashes) ] :
          \A i, j \in 1 .. Len(img_hashes) : p[i] = p[j] => i = j }

\* the same table, its keys inserted in the order p
Reordered(p) == [ i \in 1 .. Len(img_hashes) |-> img_hashes[p[i]] ]

\* a linked pair that one list of groups holds together and the other apart
MergedInOneOnly(links, gs1, gs2) ==
    \E l \in links : SameGroup(gs1, l[1], l[2]) # SameGroup(gs2, l[1], l[2])

\* C20: the partition depends on the insertion order of the table. Every
\* order gives a partition of the same keys; the partitions of two orders
\* differ exactly when a linked pair is merged under one order and left apart
\* under the other, which happens for some tables (C20_Witness) and never
\* for a table on which the relation is transitive.
C20_OrderDependence ==
    GroupsReturned =>
        LET links == { l \in TableKeys \X TableKeys : Linked(l[1], l[2]) }
            transitive == LinkedIsTransitive
            partition == Range(groups)
        IN  \A p \in InsertionOrders :
                LET gs == group_similar_hashes(Reordered(p), threshold)
                IN  /\ UNION Range(gs) = TableKeys
                    /\ Range(gs) # partition <=> MergedInOneOnly(links, gs, groups)
                    /\ transitive => Range(gs) = partition

\* the fingerprints 10, 00, 01 at threshold 98.4375: inserted in this order
\* the third image is left apart from the second, one bit away; inserted
\* with the second image first, all three are one group
C20_Witness ==
    /\ GroupsReturned
    /\ threshold = 1575
    /\ Len(img_hashes) = 3
    /\ img_hashes[1].hash = { 2 }
    /\ img_hashes[2].hash = {}
    /\ img_hashes[3].hash = { 1 }
    /\ groups = << { 1, 2 }, { 3 } >>
    /\ group_similar_hashes(Reordered(<< 2, 1, 3 >>), threshold) = << { 1, 2, 3 } >>

\* C21: in an iteration of the pair loop on the pair (a, b), `used` never
\* shrinks and gains at most b, and gains it only when the pair was compared
\* and its similarity is at or above the threshold; a is not added; a pair
\* with a or b in `used` is skipped: no comparison, the groups and `used` as
\* they were; a compared pair below the threshold changes neither.
C21_UsedMarking ==
    [][ (pc = "group" /\ todo # << >>) =>
            LET a == Head(todo)[1]
                b == Head(todo)[2]
                skipped == a \in used \/ b \in used
                compared == sims' = sims \cup { << a, b >> }
            IN  /\ used \subseteq used'
                /\ used' \ used \subseteq { b }
                /\ a \in used' <=> a \in used
                /\ skipped =>
                       /\ sims' = sims
                       /\ groups' = groups
                       /\ used' = used
                /\ ~skipped => compared
                /\ (~skipped /\ Sim(a, b) >= threshold) =>
                       /\ used' = used \cup { b }
                       /\ SameGroup(groups', a, b)
                /\ (~skipped /\ Sim(a, b) < threshold) =>
                       /\ groups' = groups
                       /\ used' = used
      ]_vars

\* the pair loop over three images has ended: image 1 took part in two
\* qualifying merges, with 2 and with 3, and is not in `used`; the pair
\* (2, 3) was skipped without a comparison
C21_Witness ==
    /\ pc = "group"
    /\ todo = << >>
    /\ pk = 3
    /\ sims = { << 1, 2 >>, << 1, 3 >> }
    /\ used = { 2, 3 }
    /\ groups = << { 1, 2, 3 } >>

\* C22: the passes of a run come in order. A file is opened and
\* fingerprinted only while no pair has been compared and nothing removed; a
\* pair is compared only over the complete table, which holds every image
\* file that decoded; the Grouper is entered once, from the end of the
\* hashing loop, and once it has returned neither the table nor the groups
\* change again; os.remove is called only after the Grouper has returned.
C22_PassOrdering ==
    [][ /\ (hi' # hi \/ img_hashes' # img_hashes) =>
               /\ pc = "hash"
               /\ pk = 0
               /\ sims = {}
               /\ attempts = << >>
               /\ on_disk = InitialFiles
        /\ (pk' # pk \/ sims' # sims) =>
               /\ pc = "group"
               /\ hi = Len(image_files)
               /\ Keys(img_hashes) = GoodImageSeq
               /\ attempts = << >>
        /\ (pc' = "group" /\ pc # "group") =>
               /\ pc = "hash"
               /\ hi = Len(image_files)
               /\ pk' = 0
               /\ groups' = << >>
        /\ GroupsReturned =>
               /\ GroupsReturned'
               /\ groups' = groups
               /\ img_hashes' = img_hashes
               /\ hi' = hi
               /\ pk' = pk
               /\ sims' = sims
        /\ (attempts' # attempts \/ on_disk' # on_disk) =>
               /\ GroupsReturned
               /\ pc = "delete"
               /\ groups = group_similar_hashes(img_hashes, threshold)
      ]_vars

\* a finished execute run that fingerprinted three files, compared pairs and
\* then removed a file
C22_Witness ==
    /\ variant = "delete"
    /\ pc = "done"
    /\ hi = 3
    /\ Len(img_hashes) = 3
    /\ pk = 3
    /\ sims # {}
    /\ Len(attempts) >= 1
    /\ attempts[1].ok
    /\ on_disk # InitialFiles

\* the pairs of keys << x, y >> with x before y in the table
OrderedKeyPairs ==
    { p \in TableKeys \X TableKeys : PosOf(p[1]) < PosOf(p[2]) }

\* p comes before q in the lexicographic order of insertion positions
LexBefore(p, q) ==
    \/ PosOf(p[1]) < PosOf(q[1])
    \/ PosOf(p[1]) = PosOf(q[1]) /\ PosOf(p[2]) < PosOf(q[2])

\* n(n-1)/2 for the n keys of the table
NumPairs == (Len(img_hashes) * (Len(img_hashes) - 1)) \div 2

\* inside the pair loop: the pairs still to come are pairs of distinct keys
\* in strictly increasing lexicographic order, every pair already examined
\* comes before them, and pk pairs were examined; after the Grouper has
\* returned, n(n-1)/2 pairs were
PairsOnceInOrder ==
    /\ pc = "group" =>
           /\ Range(todo) \subseteq OrderedKeyPairs
           /\ \A k \in 1 .. Len(todo) - 1 : LexBefore(todo[k], todo[k + 1])
           /\ \A p \in OrderedKeyPairs \ Range(todo) :
                  todo # << >> => LexBefore(p, Head(todo))
           /\ pk + Len(todo) = NumPairs
           /\ sims \subseteq OrderedKeyPairs \ Range(todo)
    /\ GroupsReturned => pk = NumPairs

SummaryPrinted == \E k \in 1 .. Len(out) : out[k].msg = "SUMMARY"

\* C23, as claimed: every run over a directory listing that has ended has
\* printed its summary.
C23_EndsAfterSummary ==
    (dir_exists /\ pc = "done") => SummaryPrinted

\* C23, amended: every run over a directory listing ends, whatever files
\* fail to decode or to be removed and whatever the threshold; it has then
\* printed its summary when the listing holds an image file, and "No images
\* found." and no summary when it holds none; the pair loop examines each of
\* the n(n-1)/2 pairs of distinct keys once, in lexicographic order of
\* insertion position, and stops.
C23_Termination ==
    /\ [] PairsOnceInOrder
    /\ [] ((dir_exists /\ pc = "done") =>
               IF total > 0 THEN SummaryPrinted
               ELSE out = << MsgNoImages >>)
    /\ [] (pc = "crashed" => ~dir_exists)
    /\ dir_exists ~> (pc = "done")

\* an execute run has ended after a file failed to decode, the one pair of
\* the two others was examined and a removal failed
C23_Witness ==
    /\ variant = "delete"
    /\ pc = "done"
    /\ BadImages # {}
    /\ Len(img_hashes) = 2
    /\ pk = 1
    /\ Len(attempts) = 1
    /\ ~attempts[1].ok
    /\ SummaryPrinted

\* single-pass leader clustering, from key position i on: a key not yet
\* absorbed opens a group and absorbs every later key, not yet absorbed,
\* whose similarity to it is at or above the threshold
RECURSIVE LeaderScan(_, _, _, _, _)
LeaderScan(table, thr, i, gs, absorbed) ==
    IF i > Len(table) THEN gs
    ELSE IF table[i].path \in absorbed
         THEN LeaderScan(table, thr, i + 1, gs, absorbed)
         ELSE LET followers ==
                      { table[j].path : j \in
                          { k \in i + 1 .. Len(table) :
                              /\ table[k].path \notin absorbed
                              /\ hamming_similarity(table[i].hash, table[k].hash) >= thr } }
                  group == { table[i].path } \cup followers
              IN  LeaderScan(table, thr, i + 1, Append(gs, group),
                             absorbed \cup group)

LeaderClustering(table, thr) == LeaderScan(table, thr, 1, << >>, {})

\* C24: the groups the pair loop returns are, as a set, the groups of
\* single-pass leader clustering of the same table in the same key order at
\* the same threshold, and there are as many of them.
C24_LeaderClustering ==
    GroupsReturned =>
        LET leader == LeaderClustering(img_hashes, threshold)
        IN  /\ Range(groups) = Range(leader)
            /\ Len(groups) = Len(leader)

\* three images, the first alone and the second absorbing the third: the
\* two procedures give the same groups, listed in a different order
C24_Witness ==
    /\ GroupsReturned
    /\ Len(img_hashes) = 3
    /\ groups = << { 2, 3 }, { 1 } >>
    /\ LeaderClustering(img_hashes, threshold) = << { 1 }, { 2, 3 } >>

\* the indexes of the groups built so far that hold img
GroupsHolding(img) == { k \in 1 .. Len(groups) : img \in groups[k] }

\* C25: while the pair loop runs, the groups built so far are pairwise
\* disjoint and none is empty; and when the next pair (a, b) is one that will
\* be compared and qualifies, b is in no group and a in at most one, so the
\* groups holding a or b are the groups holding a.
C25_IntermediateDisjoint ==
    pc = "group" =>
        /\ \A k, l \in 1 .. Len(groups) :
               k # l => groups[k] \cap groups[l] = {}
        /\ \A k \in 1 .. Len(groups) : Cardinality(groups[k]) >= 2
        /\ todo # << >> =>
               LET a == Head(todo)[1]
                   b == Head(todo)[2]
               IN  (a \notin used /\ b \notin used /\ Sim(a, b) >= threshold) =>
                       /\ GroupsHolding(b) = {}
                       /\ Cardinality(GroupsHolding(a)) <= 1
                       /\ GroupsHolding(a) \cup GroupsHolding(b) = GroupsHolding(a)

\* the pair (1, 3) is about to be compared and qualifies; image 1 is in the
\* one group built so far and image 3 in none
C25_Witness ==
    /\ pc = "group"
    /\ todo # << >>
    /\ Head(todo) = << 1, 3 >>
    /\ groups = << { 1, 2 } >>
    /\ used = { 2 }
    /\ Sim(1, 3) >= threshold
    /\ GroupsHolding(1) = { 1 }
    /\ GroupsHolding(3) = {}

\* C26, as claimed: in every returned group every member, the earliest
\* one included, has Similarity Percentage at or above the threshold to the
\* group's earliest member, and every other member is in `used`.
C26_StarShape ==
    GroupsReturned =>
        \A k \in 1 .. Len(groups) :
            \A x \in groups[k] :
                /\ Sim(x, Earliest(groups[k])) >= threshold
                /\ x # Earliest(groups[k]) => x \in used

\* C26, amended: in every returned group every member other than the
\* earliest has Similarity Percentage at or above the threshold to the
\* earliest member and is in `used`; the earliest member is not in `used`,
\* and its similarity to itself, 100, reaches the threshold only when the
\* threshold is at most 100.
C26_StarShapeOfFollowers ==
    GroupsReturned =>
        \A k \in 1 .. Len(groups) :
            LET first == Earliest(groups[k])
            IN  /\ \A x \in groups[k] \ { first } :
                       /\ Sim(x, first) >= threshold
                       /\ x \in used
                /\ first \notin used
                /\ Sim(first, first) = 100 * PctUnit
                /\ Sim(first, first) >= threshold <=> threshold <= 100 * PctUnit

\* a run at threshold 98.4375 has returned one group of three: the second
\* image, one bit from the first, and the third, a copy of the first, are
\* both in `used`
C26_Witness ==
    /\ GroupsReturned
    /\ threshold = 1575
    /\ Len(img_hashes) = 3
    /\ Dist(1, 2) = 1
    /\ Dist(1, 3) = 0
    /\ groups = << { 1, 2, 3 } >>
    /\ used = { 2, 3 }

\* C27: the earliest members of two different returned groups have
\* Similarity Percentage strictly below the threshold.
C27_RepresentativesDissimilar ==
    GroupsReturned =>
        \A k, l \in 1 .. Len(groups) :
            k # l => Sim(Earliest(groups[k]), Earliest(groups[l])) < threshold

\* the fingerprints 11, 10, 00 at threshold 98.4375: the groups are {1, 2}
\* and {3}; their earliest members 1 and 3 are two bits apart, where the
\* members 2 and 3 are one bit apart
C27_Witness ==
    /\ GroupsReturned
    /\ threshold = 1575
    /\ Len(img_hashes) = 3
    /\ groups = << { 1, 2 }, { 3 } >>
    /\ Earliest(groups[1]) = 1
    /\ Dist(1, 3) = 2
    /\ Dist(2, 3) = 1
    /\ Sim(2, 3) >= threshold
    /\ Sim(1, 3) < threshold

\* C28, as claimed: for the same table and key order, a higher threshold
\* gives at least as many groups as a lower one, so that neither the
\* duplicates count of the report variant nor that of the delete variant is
\* larger at the higher threshold.
C28_GroupCountMonotone ==
    GroupsReturned =>
        \A t \in BlockThresholds :
            t >= threshold =>
                LET higher == group_similar_hashes(img_hashes, t)
                IN  /\ Len(higher) >= Len(groups)
                    /\ ReportDuplicateCount(total, higher)
                           <= ReportDuplicateCount(total, groups)
                    /\ DeleteDuplicateCount(higher) <= DeleteDuplicateCount(groups)

\* the paths handed to os.remove so far
AttemptedPaths == { attempts[k].path : k \in 1 .. Len(attempts) }

\* C29: for a table of n >= 1 images, a threshold of 0 or less gives one
\* group holding all n keys, and a finished execute run has then handed
\* every key but the kept one to os.remove, once each, so that all but one
\* of the fingerprinted files are gone when every removal succeeded; a
\* threshold above 100 gives n singleton groups, no key is marked used and
\* nothing is listed for removal.
C29_ThresholdExtremes ==
    (GroupsReturned /\ Len(img_hashes) >= 1) =>
        /\ threshold <= 0 =>
               /\ groups = << TableKeys >>
               /\ used = TableKeys \ { img_hashes[1].path }
               /\ (variant = "delete" /\ ~dry_run /\ pc = "done") =>
                      /\ Len(attempts) = Len(img_hashes) - 1
                      /\ Cardinality(AttemptedPaths) = Len(img_hashes) - 1
                      /\ Cardinality(TableKeys \ AttemptedPaths) = 1
                      /\ (\A k \in 1 .. Len(attempts) : attempts[k].ok) =>
                             Cardinality(on_disk \cap TableKeys) = 1
        /\ threshold > 100 * PctUnit =>
               /\ groups = [ k \in 1 .. Len(img_hashes) |-> { img_hashes[k].path } ]
               /\ used = {}
               /\ duplicates = << >>
               /\ attempts = << >>

\* a finished execute run at threshold 0 over three images, not all with the
\* same fingerprint: one group, two files removed, one left
C29_Witness ==
    /\ variant = "delete"
    /\ ~dry_run
    /\ pc = "done"
    /\ threshold = 0
    /\ Len(img_hashes) = 3
    /\ Dist(1, 2) = 1
    /\ groups = << { 1, 2, 3 } >>
    /\ Len(attempts) = 2
    /\ attempts[1].ok
    /\ attempts[2].ok
    /\ Cardinality(on_disk) = 1

\* an execute run has ended and every os.remove it called succeeded
DedupSucceeded ==
    /\ variant = "delete"
    /\ ~dry_run
    /\ pc = "done"
    /\ \A k \in 1 .. Len(attempts) : attempts[k].ok

\* the Fingerprint Table of a second run that lists the directory in the
\* order `order`: the files still on disk, fingerprinted as before
SecondTable(order) ==
    [ i \in 1 .. Len(order) |->
        [ path |-> order[i], hash |-> HashOf(img_hashes, order[i]) ] ]

\* C30, as claimed: after an execute run in which every removal succeeded,
\* a second run on the same directory at the same threshold, whatever order
\* it lists the remaining files in, returns singleton groups only and lists
\* nothing for removal.
C30_Idempotent ==
    DedupSucceeded =>
        \A order \in Orderings(TableKeys \cap on_disk) :
            LET second == group_similar_hashes(SecondTable(order), threshold)
            IN  /\ \A k \in 1 .. Len(second) : Cardinality(second[k]) = 1
                /\ DeleteDuplicateCount(second) = 0

=============================================================================
